---- MODULE Spec2Model ----
(***************************************************************************)
(* Model of package productgrp (app/services/sales-api/handlers/v1/        *)
(* productgrp/productgrp.go): the five product handlers Create, Update,    *)
(* Delete, Query and QueryByID, run by concurrent requests against one     *)
(* business core.                                                          *)
(*                                                                         *)
(* A handler is cut into one action per core call: everything a handler    *)
(* does up to and including a core call is one atomic step, because the    *)
(* core is the only state requests share.  Between two steps of a request  *)
(* any other request may take steps: the handlers hold no lock.            *)
(***************************************************************************)
EXTENDS Integers, Sequences, FiniteSets, TLC

\* ------------------------------------------------------------ bounds
MaxID == 2          \* product identifiers the core can hand out: 1..MaxID
MaxReqs == 2        \* requests in flight or finished in one behaviour
MaxStrLen == 2      \* length of a page/rows query value in QuerySpec

\* ------------------------------------------------- program constants
DefaultPage == 1
DefaultRows == 10
StatusOK == 200
StatusCreated == 201
StatusNoContent == 204
StatusBadRequest == 400
StatusNotFound == 404
StatusInternalServerError == 500

IDs == 1..MaxID
Reqs == 1..MaxReqs
Names == {"a", "b"}

VARIABLES
    store,      \* the core's products: a set of domain Product records
    nextID,     \* the identifier the core assigns to the next created product
    removals,   \* history: per identifier, how many times an entity was removed
    ver,        \* history: number of mutations the core has applied
    pc,         \* per request: "idle", "update", "delete", "count" or "done"
    op,         \* per request: the handler it runs
    inp,        \* per request: the request (path parameter, body, query values)
    loc,        \* per request: the handler's local variables across core calls
    out,        \* per request: the sequence of results the handler returned
    calls       \* per request: the sequence of core calls the handler made

vars == <<store, nextID, removals, ver, pc, op, inp, loc, out, calls>>

\* ------------------------------------------------------------- values
\* product.Product, the domain entity; toAppProduct's AppProduct carries the
\* same fields under the tag "AppProduct".
Product(id, name) == [type |-> "Product", id |-> id, name |-> name]
NilProduct == Product(0, "")

\* The product_id path parameter: the canonical form of identifier n, or a
\* string that is no UUID.
CanonicalParam(n) == [form |-> "canonical", n |-> n]
MalformedParam == [form |-> "malformed", n |-> 0]
NoParam == [form |-> "none", n |-> 0]
PathParams == {CanonicalParam(n) : n \in IDs} \cup {MalformedParam}

\* A request body: JSON that decodes into the handler's struct, or not.
\* name = "" is a missing name.
JSONBody(name) == [json |-> "ok", name |-> name]
MalformedBody == [json |-> "malformed", name |-> ""]
NoBody == [json |-> "none", name |-> ""]
NewBodies == {MalformedBody, JSONBody(""), JSONBody("a")}
UpdateBodies == {MalformedBody, JSONBody("b")}

\* The query values of a Query request; <<>> and "" are absent parameters.
QueryValues(page, rows, filter, orderby) ==
    [page |-> page, rows |-> rows, filter |-> filter, orderby |-> orderby]
NoQuery == QueryValues(<<>>, <<>>, "", "")

Request(id, body, query) == [id |-> id, body |-> body, query |-> query]
NoRequest == Request(NoParam, NoBody, NoQuery)

\* Query values of the requests of Spec.
NarrowQueries ==
    {QueryValues(<<>>, <<>>, "", ""), QueryValues(<<"2">>, <<"1">>, "", ""),
     QueryValues(<<>>, <<"1">>, "a", ""), QueryValues(<<"2">>, <<"1">>, "a", "name"),
     QueryValues(<<"0">>, <<>>, "", ""), QueryValues(<<"x">>, <<>>, "", ""),
     QueryValues(<<>>, <<>>, "", "bogus")}

\* Query values of the requests of QuerySpec: every page and rows string of
\* at most MaxStrLen characters.
Chars == {"-", "0", "1", "x"}
Strings == UNION {[1..n -> Chars] : n \in 0..MaxStrLen}
WideQueries ==
    {QueryValues(p, r, f, o) :
        p \in Strings, r \in Strings, f \in {"", "a", "!"}, o \in {"", "name", "bogus"}}

\* ---------------------------------------------------------- results
EmptyResponse ==
    [type |-> "nil", items |-> <<>>, total |-> 0, page |-> 0, rowsPerPage |-> 0]
\* The value handed to web.Respond when it is one product.
ProductResponse(p) ==
    [type |-> p.type, items |-> <<p>>, total |-> 0, page |-> 0, rowsPerPage |-> 0]
\* v1Web.QueryResponse[AppProduct]
QueryResponse(items, total, page, rows) ==
    [type |-> "QueryResponse", items |-> items, total |-> total,
     page |-> page, rowsPerPage |-> rows]

\* What a handler returns.
Respond(body, status) ==
    [kind |-> "Respond", status |-> status, detail |-> "", body |-> body]
DecodeError ==
    [kind |-> "DecodeError", status |-> 0, detail |-> "body", body |-> EmptyResponse]
NewFieldsError(field) ==
    [kind |-> "FieldsError", status |-> 0, detail |-> field, body |-> EmptyResponse]
NewRequestError(status) ==
    [kind |-> "RequestError", status |-> status, detail |-> "", body |-> EmptyResponse]
Errorf(what) ==
    [kind |-> "WrappedError", status |-> 0, detail |-> what, body |-> EmptyResponse]

\* The status the caller sees for a result (the error taxonomy).
Classify(o) ==
    CASE o.kind = "Respond" -> o.status
      [] o.kind = "RequestError" -> o.status
      [] o.kind = "DecodeError" -> StatusBadRequest
      [] o.kind = "FieldsError" -> StatusBadRequest
      [] OTHER -> StatusInternalServerError

\* ------------------------------------------------ decoding and parsing
\* web.Decode into AppNewProduct / AppUpdateProduct
webDecode(body) ==
    IF body.json = "ok" THEN [err |-> FALSE, app |-> [name |-> body.name]]
    ELSE [err |-> TRUE, app |-> [name |-> ""]]

\* toCoreNewProduct: a missing required field is a validation error.
toCoreNewProduct(app) ==
    IF app.name = "" THEN [err |-> TRUE, np |-> [name |-> ""]]
    ELSE [err |-> FALSE, np |-> [name |-> app.name]]

\* toCoreUpdateProduct: an absent field stays absent.
toCoreUpdateProduct(app) == [name |-> app.name]

\* toAppProduct
toAppProduct(p) == [type |-> "AppProduct", id |-> p.id, name |-> p.name]

\* uuid.Parse(web.Param(r, "product_id"))
uuidParse(param) ==
    IF param.form = "canonical" THEN [err |-> FALSE, id |-> param.n]
    ELSE [err |-> TRUE, id |-> 0]

\* strconv.Atoi: an optional sign, then one or more decimal digits.  (The
\* range error of a value beyond 64 bits needs a string longer than any here.)
Digits == <<"0", "1", "2", "3", "4", "5", "6", "7", "8", "9">>
IsDigit(c) == \E i \in 1..Len(Digits) : Digits[i] = c
DigitValue(c) == (CHOOSE i \in 1..Len(Digits) : Digits[i] = c) - 1
RECURSIVE DigitsValue(_)
DigitsValue(s) ==
    IF s = <<>> THEN 0
    ELSE 10 * DigitsValue(SubSeq(s, 1, Len(s) - 1)) + DigitValue(s[Len(s)])
Atoi(s) ==
    LET signed == s # <<>> /\ s[1] \in {"+", "-"}
        digits == IF signed THEN Tail(s) ELSE s
    IN  IF digits = <<>> \/ \E i \in 1..Len(digits) : ~IsDigit(digits[i])
        THEN [err |-> TRUE, val |-> 0]
        ELSE [err |-> FALSE,
              val |-> IF signed /\ s[1] = "-" THEN 0 - DigitsValue(digits)
                      ELSE DigitsValue(digits)]

\* parseFilter: the recognised filter is the product name.
NoFilter == [byName |-> FALSE, name |-> ""]
parseFilter(value) ==
    IF value = "" THEN [err |-> FALSE, filter |-> NoFilter]
    ELSE IF value \in Names THEN [err |-> FALSE, filter |-> [byName |-> TRUE, name |-> value]]
    ELSE [err |-> TRUE, filter |-> NoFilter]

\* order.Parse(r, product.DefaultOrderBy)
DefaultOrderBy == [field |-> "product_id", direction |-> "ASC"]
OrderFields == {"product_id", "name"}
orderParse(value) ==
    IF value = "" THEN [err |-> FALSE, by |-> DefaultOrderBy]
    ELSE IF value \in OrderFields THEN [err |-> FALSE, by |-> [field |-> value, direction |-> "ASC"]]
    ELSE [err |-> TRUE, by |-> DefaultOrderBy]

\* ------------------------------------------------------------ the core
\* One core call as the request's log keeps it.
Call(fn, prd, filter, page, rows, err, res, n) ==
    [fn |-> fn, prd |-> prd, filter |-> filter, page |-> page, rows |-> rows,
     err |-> err, res |-> res, n |-> n, ver |-> ver]

Exists(id) == \E p \in store : p.id = id
Lookup(id) == CHOOSE p \in store : p.id = id

\* product.Core.QueryByID
CoreQueryByID(id, fail) ==
    IF fail THEN [err |-> "internal", prd |-> NilProduct]
    ELSE IF Exists(id) THEN [err |-> "", prd |-> Lookup(id)]
    ELSE [err |-> "ErrNotFound", prd |-> NilProduct]

\* product.Core.Create: the new product gets the next unused identifier.
CoreCreate(np, fail) ==
    IF fail THEN [err |-> "internal", prd |-> NilProduct, store |-> store]
    ELSE LET p == Product(nextID, np.name)
         IN  [err |-> "", prd |-> p, store |-> store \cup {p}]

\* product.Core.Update: writes prd, as changed by up, over the stored entity
\* of prd's identifier; an entity that is gone is reported, not written.
CoreUpdate(prd, up, fail) ==
    IF fail THEN [err |-> "internal", prd |-> NilProduct, store |-> store]
    ELSE IF ~Exists(prd.id) THEN [err |-> "ErrNotFound", prd |-> NilProduct, store |-> store]
    ELSE LET p == [prd EXCEPT !.name = IF up.name = "" THEN @ ELSE up.name]
         IN  [err |-> "", prd |-> p,
              store |-> {q \in store : q.id # prd.id} \cup {p}]

\* product.Core.Delete: removing an entity that is gone is no error.
CoreDelete(prd, fail) ==
    IF fail THEN [err |-> "internal", store |-> store]
    ELSE [err |-> "", store |-> {q \in store : q.id # prd.id}]

Matching(filter) == {p \in store : filter.byName => p.name = filter.name}

NameRank(name) == IF name = "a" THEN 1 ELSE IF name = "b" THEN 2 ELSE 0
SortKey(p, by) ==
    IF by.field = "name" THEN NameRank(p.name) * (MaxID + 1) + p.id ELSE p.id
RECURSIVE Sorted(_, _)
Sorted(S, by) ==
    IF S = {} THEN <<>>
    ELSE LET first == CHOOSE p \in S : \A q \in S : SortKey(p, by) <= SortKey(q, by)
         IN  <<first>> \o Sorted(S \ {first}, by)

\* product.Core.Query: page number `page` of the matching products, `rows`
\* to a page; a page or a page size below 1 is refused.
CoreQuery(filter, by, page, rows, fail) ==
    IF fail \/ page < 1 \/ rows < 1 THEN [err |-> "internal", prds |-> <<>>]
    ELSE LET all == Sorted(Matching(filter), by)
             from == (page - 1) * rows + 1
             to == IF page * rows < Len(all) THEN page * rows ELSE Len(all)
         IN  [err |-> "", prds |-> SubSeq(all, from, to)]

\* product.Core.Count
CoreCount(filter, fail) ==
    IF fail THEN [err |-> "internal", n |-> 0]
    ELSE [err |-> "", n |-> Cardinality(Matching(filter))]

\* --------------------------------------------------------- the handlers
NoLocals == [prd |-> NilProduct, id |-> 0, items |-> <<>>, filter |-> NoFilter,
             page |-> 0, rows |-> 0]

\* Requests are numbered in the order their handlers start.
Arrives(r) == pc[r] = "idle" /\ (IF r = 1 THEN TRUE ELSE pc[r - 1] # "idle")

\* The handler of request r starts on request rq, makes the core calls cs,
\* and returns o.
Returns(r, name, rq, cs, o) ==
    /\ pc' = [pc EXCEPT ![r] = "done"]
    /\ op' = [op EXCEPT ![r] = name]
    /\ inp' = [inp EXCEPT ![r] = rq]
    /\ out' = [out EXCEPT ![r] = Append(@, o)]
    /\ calls' = [calls EXCEPT ![r] = @ \o cs]
    /\ loc' = loc

\* The handler of request r starts on request rq, makes the core calls cs,
\* and goes on to its next core call at `next` with the locals l.
Continues(r, name, rq, cs, next, l) ==
    /\ pc' = [pc EXCEPT ![r] = next]
    /\ op' = [op EXCEPT ![r] = name]
    /\ inp' = [inp EXCEPT ![r] = rq]
    /\ out' = out
    /\ calls' = [calls EXCEPT ![r] = @ \o cs]
    /\ loc' = [loc EXCEPT ![r] = l]

CoreUnchanged == UNCHANGED <<store, nextID, removals, ver>>

\* Mutant of CreateParse: the translation's error is dropped.
CreateParse_DropsValidation(body) ==
    LET dec == webDecode(body)
    IN  IF dec.err THEN [err |-> TRUE, result |-> DecodeError, np |-> [name |-> ""]]
        ELSE [err |-> FALSE, result |-> DecodeError, np |-> toCoreNewProduct(dec.app).np]

\* Handlers.Create, before its core call: decode, then translate.
CreateParse(body) ==
    LET dec == webDecode(body)
        tr == toCoreNewProduct(dec.app)
    IN  IF dec.err THEN [err |-> TRUE, result |-> DecodeError, np |-> tr.np]
        ELSE IF tr.err
        THEN [err |-> TRUE, result |-> NewRequestError(StatusBadRequest), np |-> tr.np]
        ELSE [err |-> FALSE, result |-> DecodeError, np |-> tr.np]

\* Handlers.Create
Create(r, body) ==
    /\ Arrives(r)
    /\ nextID <= MaxID
    /\ LET rq == Request(NoParam, body, NoQuery)
           parsed == CreateParse(body)
       IN  IF parsed.err
           THEN Returns(r, "Create", rq, <<>>, parsed.result) /\ CoreUnchanged
           ELSE \E fail \in BOOLEAN :
                LET res == CoreCreate(parsed.np, fail)
                    c == Call("Create", NilProduct, NoFilter, 0, 0, res.err, res.prd, 0)
                IN  /\ store' = res.store
                    /\ nextID' = IF res.err = "" THEN nextID + 1 ELSE nextID
                    /\ ver' = IF res.err = "" THEN ver + 1 ELSE ver
                    /\ removals' = removals
                    /\ IF res.err # ""
                       THEN Returns(r, "Create", rq, <<c>>, Errorf("create"))
                       ELSE Returns(r, "Create", rq, <<c>>,
                                    Respond(ProductResponse(res.prd), StatusCreated))

\* Mutant of UpdateOnLookupError: Delete's no-content for a missing entity.
UpdateOnLookupError_NoContent(err) ==
    IF err = "ErrNotFound" THEN NewRequestError(StatusNoContent) ELSE Errorf("querybyid")

\* Handlers.Update: the result for a failed lookup.
UpdateOnLookupError(err) ==
    IF err = "ErrNotFound" THEN NewRequestError(StatusNotFound) ELSE Errorf("querybyid")

\* Handlers.Update, to its lookup
UpdateLookup(r, param, body) ==
    /\ Arrives(r)
    /\ CoreUnchanged
    /\ LET rq == Request(param, body, NoQuery)
           dec == webDecode(body)
           id == uuidParse(param)
       IN  IF dec.err
           THEN Returns(r, "Update", rq, <<>>, DecodeError)
           ELSE IF id.err
           THEN Returns(r, "Update", rq, <<>>, NewFieldsError("product_id"))
           ELSE \E fail \in BOOLEAN :
                LET res == CoreQueryByID(id.id, fail)
                    c == Call("QueryByID", Product(id.id, ""), NoFilter, 0, 0,
                              res.err, res.prd, 0)
                IN  IF res.err # ""
                    THEN Returns(r, "Update", rq, <<c>>, UpdateOnLookupError(res.err))
                    ELSE Continues(r, "Update", rq, <<c>>, "update",
                                   [NoLocals EXCEPT !.prd = res.prd, !.id = id.id])

\* Mutant of UpdateApply: the core update's error is dropped.
UpdateApply_DropsError(r) ==
    /\ pc[r] = "update"
    /\ \E fail \in BOOLEAN :
        LET up == toCoreUpdateProduct(webDecode(inp[r].body).app)
            res == CoreUpdate(loc[r].prd, up, fail)
            c == Call("Update", loc[r].prd, NoFilter, 0, 0, res.err, res.prd, 0)
        IN  /\ store' = res.store
            /\ ver' = IF res.err = "" THEN ver + 1 ELSE ver
            /\ UNCHANGED <<nextID, removals>>
            /\ Returns(r, "Update", inp[r], <<c>>,
                       Respond(ProductResponse(res.prd), StatusOK))

\* Handlers.Update, from its core update
UpdateApply(r) ==
    /\ pc[r] = "update"
    /\ \E fail \in BOOLEAN :
        LET up == toCoreUpdateProduct(webDecode(inp[r].body).app)
            res == CoreUpdate(loc[r].prd, up, fail)
            c == Call("Update", loc[r].prd, NoFilter, 0, 0, res.err, res.prd, 0)
        IN  /\ store' = res.store
            /\ ver' = IF res.err = "" THEN ver + 1 ELSE ver
            /\ UNCHANGED <<nextID, removals>>
            /\ IF res.err # ""
               THEN Returns(r, "Update", inp[r], <<c>>, Errorf("update"))
               ELSE Returns(r, "Update", inp[r], <<c>>,
                            Respond(ProductResponse(res.prd), StatusOK))

\* Mutant of DeleteOnLookupError: Update's not-found for a missing entity.
DeleteOnLookupError_NotFound(err) ==
    IF err = "ErrNotFound" THEN NewRequestError(StatusNotFound) ELSE Errorf("querybyid")

\* Handlers.Delete: the result for a failed lookup.
DeleteOnLookupError(err) ==
    IF err = "ErrNotFound" THEN NewRequestError(StatusNoContent) ELSE Errorf("querybyid")

\* Mutant of DeleteLookup: the identifier's parse error is dropped.
DeleteLookup_DropsParseError(r, param) ==
    /\ Arrives(r)
    /\ CoreUnchanged
    /\ LET rq == Request(param, NoBody, NoQuery)
           id == uuidParse(param)
       IN  \E fail \in BOOLEAN :
                LET res == CoreQueryByID(id.id, fail)
                    c == Call("QueryByID", Product(id.id, ""), NoFilter, 0, 0,
                              res.err, res.prd, 0)
                IN  IF res.err # ""
                    THEN Returns(r, "Delete", rq, <<c>>, DeleteOnLookupError(res.err))
                    ELSE Continues(r, "Delete", rq, <<c>>, "delete",
                                   [NoLocals EXCEPT !.prd = res.prd, !.id = id.id])

\* Handlers.Delete, to its lookup
DeleteLookup(r, param) ==
    /\ Arrives(r)
    /\ CoreUnchanged
    /\ LET rq == Request(param, NoBody, NoQuery)
           id == uuidParse(param)
       IN  IF id.err
           THEN Returns(r, "Delete", rq, <<>>, NewFieldsError("product_id"))
           ELSE \E fail \in BOOLEAN :
                LET res == CoreQueryByID(id.id, fail)
                    c == Call("QueryByID", Product(id.id, ""), NoFilter, 0, 0,
                              res.err, res.prd, 0)
                IN  IF res.err # ""
                    THEN Returns(r, "Delete", rq, <<c>>, DeleteOnLookupError(res.err))
                    ELSE Continues(r, "Delete", rq, <<c>>, "delete",
                                   [NoLocals EXCEPT !.prd = res.prd, !.id = id.id])

\* Handlers.Delete, from its core delete
DeleteApply(r) ==
    /\ pc[r] = "delete"
    /\ \E fail \in BOOLEAN :
        LET res == CoreDelete(loc[r].prd, fail)
            gone == res.err = "" /\ Exists(loc[r].prd.id)
            c == Call("Delete", loc[r].prd, NoFilter, 0, 0, res.err, NilProduct,
                      IF gone THEN 1 ELSE 0)
        IN  /\ store' = res.store
            /\ removals' = IF gone THEN [removals EXCEPT ![loc[r].prd.id] = @ + 1]
                           ELSE removals
            /\ ver' = IF gone THEN ver + 1 ELSE ver
            /\ nextID' = nextID
            /\ IF res.err # ""
               THEN Returns(r, "Delete", inp[r], <<c>>, Errorf("delete"))
               ELSE Returns(r, "Delete", inp[r], <<c>>,
                            Respond(EmptyResponse, StatusNoContent))

Parsed(err, field, page, rows, filter, by) ==
    [err |-> err, result |-> NewFieldsError(field), page |-> page, rows |-> rows,
     filter |-> filter, by |-> by]

\* Mutant of QueryParse: an orderby that does not parse falls back to the
\* default order.
QueryParse_DefaultsBadOrder(q) ==
    LET page == IF q.page # <<>> THEN Atoi(q.page)
                ELSE [err |-> FALSE, val |-> DefaultPage]
        rows == IF q.rows # <<>> THEN Atoi(q.rows)
                ELSE [err |-> FALSE, val |-> DefaultRows]
        flt == parseFilter(q.filter)
        ord == orderParse(q.orderby)
    IN  IF page.err THEN Parsed(TRUE, "page", 0, 0, NoFilter, DefaultOrderBy)
        ELSE IF rows.err THEN Parsed(TRUE, "rows", page.val, 0, NoFilter, DefaultOrderBy)
        ELSE IF flt.err THEN Parsed(TRUE, "filter", page.val, rows.val, NoFilter, DefaultOrderBy)
        ELSE Parsed(FALSE, "", page.val, rows.val, flt.filter, ord.by)

\* Handlers.Query, before its core calls: page, rows, filter, order, each
\* ending the handler when it does not parse.
QueryParse(q) ==
    LET page == IF q.page # <<>> THEN Atoi(q.page)
                ELSE [err |-> FALSE, val |-> DefaultPage]
        rows == IF q.rows # <<>> THEN Atoi(q.rows)
                ELSE [err |-> FALSE, val |-> DefaultRows]
        flt == parseFilter(q.filter)
        ord == orderParse(q.orderby)
    IN  IF page.err THEN Parsed(TRUE, "page", 0, 0, NoFilter, DefaultOrderBy)
        ELSE IF rows.err THEN Parsed(TRUE, "rows", page.val, 0, NoFilter, DefaultOrderBy)
        ELSE IF flt.err THEN Parsed(TRUE, "filter", page.val, rows.val, NoFilter, DefaultOrderBy)
        ELSE IF ord.err THEN Parsed(TRUE, "orderby", page.val, rows.val, flt.filter, DefaultOrderBy)
        ELSE Parsed(FALSE, "", page.val, rows.val, flt.filter, ord.by)

\* Handlers.Query, to its core query
QueryFetch(r, q) ==
    /\ Arrives(r)
    /\ CoreUnchanged
    /\ LET rq == Request(NoParam, NoBody, q)
           parsed == QueryParse(q)
       IN  IF parsed.err THEN Returns(r, "Query", rq, <<>>, parsed.result)
           ELSE \E fail \in BOOLEAN :
                LET res == CoreQuery(parsed.filter, parsed.by, parsed.page, parsed.rows, fail)
                    c == Call("Query", NilProduct, parsed.filter, parsed.page, parsed.rows,
                              res.err, NilProduct, Len(res.prds))
                IN  IF res.err # ""
                    THEN Returns(r, "Query", rq, <<c>>, Errorf("query"))
                    ELSE Continues(r, "Query", rq, <<c>>, "count",
                             [NoLocals EXCEPT
                                !.items = [i \in 1..Len(res.prds) |-> toAppProduct(res.prds[i])],
                                !.filter = parsed.filter,
                                !.page = parsed.page, !.rows = parsed.rows])

\* Mutant of QueryCount: the count is taken over every product.
QueryCount_CountsAll(r) ==
    /\ pc[r] = "count"
    /\ CoreUnchanged
    /\ \E fail \in BOOLEAN :
        LET res == CoreCount(NoFilter, fail)
            c == Call("Count", NilProduct, NoFilter, 0, 0, res.err, NilProduct, res.n)
        IN  IF res.err # ""
            THEN Returns(r, "Query", inp[r], <<c>>, Errorf("count"))
            ELSE Returns(r, "Query", inp[r], <<c>>,
                         Respond(QueryResponse(loc[r].items, res.n, loc[r].page, loc[r].rows),
                                 StatusOK))

\* Mutant of QueryCount: a failed count is tried once more.
QueryCount_Retries(r) ==
    /\ pc[r] = "count"
    /\ CoreUnchanged
    /\ \E fail \in BOOLEAN :
        LET res == CoreCount(loc[r].filter, fail)
            c == Call("Count", NilProduct, loc[r].filter, 0, 0, res.err, NilProduct, res.n)
        IN  IF res.err # "" /\ Len(calls[r]) < 3
            THEN Continues(r, "Query", inp[r], <<c>>, "count", loc[r])
            ELSE IF res.err # ""
            THEN Returns(r, "Query", inp[r], <<c>>, Errorf("count"))
            ELSE Returns(r, "Query", inp[r], <<c>>,
                         Respond(QueryResponse(loc[r].items, res.n, loc[r].page, loc[r].rows),
                                 StatusOK))

\* Handlers.Query, from its core count
QueryCount(r) ==
    /\ pc[r] = "count"
    /\ CoreUnchanged
    /\ \E fail \in BOOLEAN :
        LET res == CoreCount(loc[r].filter, fail)
            c == Call("Count", NilProduct, loc[r].filter, 0, 0, res.err, NilProduct, res.n)
        IN  IF res.err # ""
            THEN Returns(r, "Query", inp[r], <<c>>, Errorf("count"))
            ELSE Returns(r, "Query", inp[r], <<c>>,
                         Respond(QueryResponse(loc[r].items, res.n, loc[r].page, loc[r].rows),
                                 StatusOK))

\* Handlers.QueryByID
QueryByID(r, param) ==
    /\ Arrives(r)
    /\ CoreUnchanged
    /\ LET rq == Request(param, NoBody, NoQuery)
           id == uuidParse(param)
       IN  IF id.err
           THEN Returns(r, "QueryByID", rq, <<>>, NewFieldsError("product_id"))
           ELSE \E fail \in BOOLEAN :
                LET res == CoreQueryByID(id.id, fail)
                    c == Call("QueryByID", Product(id.id, ""), NoFilter, 0, 0,
                              res.err, res.prd, 0)
                IN  IF res.err = "ErrNotFound"
                    THEN Returns(r, "QueryByID", rq, <<c>>, NewRequestError(StatusNotFound))
                    ELSE IF res.err # ""
                    THEN Returns(r, "QueryByID", rq, <<c>>, Errorf("querybyid"))
                    ELSE Returns(r, "QueryByID", rq, <<c>>,
                                 Respond(ProductResponse(toAppProduct(res.prd)), StatusOK))

\* ------------------------------------------------------ specifications
\* The catalogue a behaviour starts from: the first k identifiers are taken,
\* odd ones named "a" and even ones "b".
InitialName(i) == IF i % 2 = 1 THEN "a" ELSE "b"
Init ==
    /\ \E k \in 0..MaxID :
        /\ store = {Product(i, InitialName(i)) : i \in 1..k}
        /\ nextID = k + 1
    /\ removals = [i \in IDs |-> 0]
    /\ ver = 0
    /\ pc = [r \in Reqs |-> "idle"]
    /\ op = [r \in Reqs |-> "none"]
    /\ inp = [r \in Reqs |-> NoRequest]
    /\ loc = [r \in Reqs |-> NoLocals]
    /\ out = [r \in Reqs |-> <<>>]
    /\ calls = [r \in Reqs |-> <<>>]

Next ==
    \E r \in Reqs :
        \/ \E body \in NewBodies : Create(r, body)
        \/ \E param \in PathParams, body \in UpdateBodies : UpdateLookup(r, param, body)
        \/ UpdateApply(r)
        \/ \E param \in PathParams : DeleteLookup(r, param)
        \/ DeleteApply(r)
        \/ \E q \in NarrowQueries : QueryFetch(r, q)
        \/ QueryCount(r)
        \/ \E param \in PathParams : QueryByID(r, param)

Spec == Init /\ [][Next]_vars

\* A handler that has started runs on: its pending core call is made.
Pending(r) == UpdateApply(r) \/ DeleteApply(r) \/ QueryCount(r)
FairSpec == Spec /\ \A r \in Reqs : WF_vars(Pending(r))

\* One Query request at a time, over every page and rows string.
QueryNext ==
    \/ Arrives(1) /\ \E q \in WideQueries : QueryFetch(1, q)
    \/ QueryCount(1)

QuerySpec == Init /\ [][QueryNext]_vars

\* ---------------------------------------------------------- properties
Done(r) == pc[r] = "done"
Result(r) == out[r][1]
CallsTo(r, fn) == {i \in 1..Len(calls[r]) : calls[r][i].fn = fn}
WellFormedID(r) == ~uuidParse(inp[r].id).err
Decodable(r) == ~webDecode(inp[r].body).err
\* Request r starts and ends in this step.
StartsAndEnds(r) == pc[r] = "idle" /\ pc'[r] = "done"

\* C1: an Update, Delete or QueryByID whose path identifier is malformed
\* returns bad-request, makes no core call and leaves the core as it was.
C1_MalformedIDNoCoreCall ==
    [][\A r \in Reqs :
        (/\ StartsAndEnds(r)
         /\ op'[r] \in {"Update", "Delete", "QueryByID"}
         /\ uuidParse(inp'[r].id).err)
        => /\ Classify(out'[r][1]) = StatusBadRequest
           /\ calls'[r] = <<>>
           /\ UNCHANGED <<store, nextID, removals, ver>>]_vars

\* C1 witness: each of the three handlers has refused a malformed identifier.
C1_Witness ==
    \E r1, r2 \in Reqs :
        /\ Done(r1) /\ op[r1] = "Update" /\ ~WellFormedID(r1) /\ Decodable(r1)
        /\ Done(r2) /\ op[r2] = "Delete" /\ ~WellFormedID(r2)
        /\ Result(r1).kind = "FieldsError" /\ Result(r2).kind = "FieldsError"

\* C2 as stated: a Delete whose lookup reports not-found returns no-content
\* without a core delete, and every Delete on a well-formed identifier
\* returns no-content, with at most one entity removed per identifier.
C2_EveryDeleteNoContent ==
    /\ \A r \in Reqs :
        (Done(r) /\ op[r] = "Delete" /\ WellFormedID(r))
        => /\ Classify(Result(r)) = StatusNoContent
           /\ (calls[r][1].err = "ErrNotFound" => CallsTo(r, "Delete") = {})
    /\ \A id \in IDs : removals[id] <= 1

\* C2 amended: a Delete whose lookup reports not-found returns no-content
\* (never not-found) without a core delete; of the Deletes on one well-formed
\* identifier none returns not-found, each returns no-content unless one of
\* its core calls fails, and then it returns an internal failure; at most one
\* entity is removed per identifier.
C2_DeleteIdempotent ==
    /\ \A r \in Reqs :
        (Done(r) /\ op[r] = "Delete" /\ WellFormedID(r))
        => /\ Classify(Result(r)) \in {StatusNoContent, StatusInternalServerError}
           /\ (calls[r][1].err = "ErrNotFound"
               => /\ Classify(Result(r)) = StatusNoContent
                  /\ CallsTo(r, "Delete") = {}
                  /\ Len(calls[r]) = 1)
           /\ (Classify(Result(r)) = StatusInternalServerError
               <=> \E i \in 1..Len(calls[r]) : calls[r][i].err = "internal")
    /\ \A id \in IDs : removals[id] <= 1

\* C2 witness: two Deletes on one identifier both returned no-content, the
\* second after a lookup that reported not-found, and one entity was removed.
C2_Witness ==
    \E r1, r2 \in Reqs :
        /\ r1 # r2 /\ Done(r1) /\ Done(r2)
        /\ op[r1] = "Delete" /\ op[r2] = "Delete"
        /\ WellFormedID(r1) /\ inp[r1].id = inp[r2].id
        /\ CallsTo(r1, "Delete") # {}
        /\ calls[r2][1].err = "ErrNotFound"
        /\ Classify(Result(r1)) = StatusNoContent
        /\ Classify(Result(r2)) = StatusNoContent
        /\ removals[inp[r1].id.n] = 1

C4_PageAndRowsAtLeastOne ==
    \A r \in Reqs : \A i \in CallsTo(r, "Query") :
        calls[r][i].page >= 1 /\ calls[r][i].rows >= 1

\* A parameter of the Query request fails to parse.
ParseFails(q) ==
    \/ q.page # <<>> /\ Atoi(q.page).err
    \/ q.rows # <<>> /\ Atoi(q.rows).err
    \/ parseFilter(q.filter).err
    \/ orderParse(q.orderby).err

\* C5: a Query with a parameter that fails to parse returns bad-request
\* and calls neither the core query nor the core count.
C5_ParseFailureNoCoreCall ==
    \A r \in Reqs :
        (pc[r] # "idle" /\ op[r] = "Query" /\ ParseFails(inp[r].query))
        => /\ Done(r)
           /\ Classify(Result(r)) = StatusBadRequest
           /\ calls[r] = <<>>

\* C5 witness: a Query whose page and rows parse and whose orderby field is
\* outside the allow-list has been refused.
C5_Witness ==
    \E r \in Reqs :
        /\ Done(r) /\ op[r] = "Query"
        /\ inp[r].query.page # <<>> /\ ~Atoi(inp[r].query.page).err
        /\ inp[r].query.rows # <<>> /\ ~Atoi(inp[r].query.rows).err
        /\ ~parseFilter(inp[r].query.filter).err
        /\ orderParse(inp[r].query.orderby).err
        /\ Result(r).kind = "FieldsError"

Succeeded(r) == Done(r) /\ Result(r).kind = "Respond"
RequestedRows(q) == IF q.rows = <<>> THEN DefaultRows ELSE Atoi(q.rows).val

\* C6: a successful Query made the core query and then the core count with
\* the request's filter and nothing of its page or rows; it returns no more
\* items than the rows asked for; two successful Queries with the same
\* filter whose counts saw the same core state return the same total.
C6_CountUsesSameFilter ==
    /\ \A r \in Reqs :
        (Succeeded(r) /\ op[r] = "Query")
        => /\ Len(calls[r]) = 2
           /\ calls[r][1].fn = "Query" /\ calls[r][2].fn = "Count"
           /\ calls[r][2].filter = calls[r][1].filter
           /\ calls[r][1].filter = parseFilter(inp[r].query.filter).filter
           /\ calls[r][2].page = 0 /\ calls[r][2].rows = 0
           /\ Result(r).body.total = calls[r][2].n
           /\ Len(Result(r).body.items) <= RequestedRows(inp[r].query)
    /\ \A r1, r2 \in Reqs :
        (/\ Succeeded(r1) /\ op[r1] = "Query" /\ Succeeded(r2) /\ op[r2] = "Query"
         /\ inp[r1].query.filter = inp[r2].query.filter
         /\ calls[r1][2].ver = calls[r2][2].ver)
        => Result(r1).body.total = Result(r2).body.total

\* C6 witness: two successful filtered Queries of different pages over the
\* same core state, each with one item of a total of one or more.
C6_Witness ==
    \E r1, r2 \in Reqs :
        /\ Succeeded(r1) /\ op[r1] = "Query" /\ Succeeded(r2) /\ op[r2] = "Query"
        /\ inp[r1].query.filter = "a" /\ inp[r2].query.filter = "a"
        /\ inp[r1].query.page # inp[r2].query.page
        /\ calls[r1][2].ver = calls[r2][2].ver
        /\ Len(Result(r1).body.items) = 1
        /\ Result(r1).body.total >= 1
        /\ Result(r2).body.total = Result(r1).body.total

\* C7: a Create calls the core creation at most once; with the created
\* status exactly one entity is new; a failed decode or translation makes no
\* core call and creates nothing; a core error is an internal failure.
C7_CreateAtMostOnce ==
    [][\A r \in Reqs :
        (StartsAndEnds(r) /\ op'[r] = "Create")
        => LET o == out'[r][1]
               cs == calls'[r]
               bad == webDecode(inp'[r].body).err
                      \/ toCoreNewProduct(webDecode(inp'[r].body).app).err
           IN  /\ Len(cs) <= 1
               /\ \A i \in 1..Len(cs) : cs[i].fn = "Create"
               /\ Classify(o) = StatusCreated
                  => /\ Len(cs) = 1 /\ cs[1].err = ""
                     /\ store \subseteq store'
                     /\ Cardinality(store' \ store) = 1
                     /\ ~\E p \in store : p.id = cs[1].res.id
               /\ bad => /\ cs = <<>> /\ store' = store
                         /\ Classify(o) = StatusBadRequest
               /\ (cs # <<>> /\ cs[1].err # "")
                  => /\ Classify(o) = StatusInternalServerError
                     /\ store' = store]_vars

\* C7 witness: a Create has returned the created status.
C7_Witness ==
    \E r \in Reqs :
        /\ Done(r) /\ op[r] = "Create"
        /\ Classify(Result(r)) = StatusCreated
        /\ calls[r][1].res \in store

\* C8: a successful response that carries a product carries the Response
\* DTO, never the domain Product.
C8_ResponsesAreDTOs ==
    \A r \in Reqs :
        Succeeded(r)
        => /\ Result(r).body.type \in {"AppProduct", "QueryResponse", "nil"}
           /\ \A i \in 1..Len(Result(r).body.items) :
                Result(r).body.items[i].type = "AppProduct"

\* C9: the entity an Update hands to the core update is the one its own
\* lookup returned; an Update whose entity was removed between its lookup and
\* its core update returns an error, and a removed entity stays removed.
C9_UpdateAgainstFetchedEntity ==
    /\ \A r \in Reqs : \A i \in CallsTo(r, "Update") :
        /\ i = 2
        /\ calls[r][1].fn = "QueryByID" /\ calls[r][1].err = ""
        /\ calls[r][i].prd = calls[r][1].res
    /\ \A r, d \in Reqs :
        (/\ Done(r) /\ CallsTo(r, "Update") # {} /\ CallsTo(d, "Delete") # {}
         /\ calls[d][2].prd.id = calls[r][2].prd.id
         /\ calls[d][2].n = 1
         /\ calls[d][2].ver < calls[r][2].ver)
        => /\ Result(r).kind # "Respond"
           /\ Classify(Result(r)) = StatusInternalServerError
    /\ \A id \in IDs : removals[id] > 0 => ~Exists(id)

\* C9 witness: a Delete removed the entity between an Update's lookup and
\* its core update, and the Update has returned.
C9_Witness ==
    \E r, d \in Reqs :
        /\ Done(r) /\ op[r] = "Update" /\ Done(d) /\ op[d] = "Delete"
        /\ Len(calls[r]) = 2 /\ Len(calls[d]) = 2
        /\ calls[r][1].err = "" /\ calls[r][2].err = "ErrNotFound"
        /\ calls[d][2].n = 1 /\ calls[d][2].prd.id = calls[r][2].prd.id
        /\ calls[r][1].ver <= calls[d][2].ver /\ calls[d][2].ver < calls[r][2].ver
        /\ removals[calls[r][2].prd.id] = 1

\* The core calls each handler may make, in order.
Pipeline(name) ==
    CASE name = "Create" -> <<"Create">>
      [] name = "Update" -> <<"QueryByID", "Update">>
      [] name = "Delete" -> <<"QueryByID", "Delete">>
      [] name = "Query" -> <<"Query", "Count">>
      [] name = "QueryByID" -> <<"QueryByID">>
      [] OTHER -> <<>>

NoRetry(r) ==
    LET cs == calls[r] IN
    /\ Len(cs) <= Len(Pipeline(op[r]))
    /\ \A i \in 1..Len(cs) :
        /\ cs[i].fn = Pipeline(op[r])[i]
        /\ cs[i].err # ""
           => /\ i = Len(cs)
              /\ Done(r)
              /\ Result(r).kind # "Respond"
    /\ Len(out[r]) = (IF Done(r) THEN 1 ELSE 0)
    /\ (Done(r) /\ op[r] \in {"Create", "Update"} /\ ~Decodable(r)) => cs = <<>>
    /\ (Done(r) /\ op[r] \in {"Update", "Delete", "QueryByID"} /\ ~WellFormedID(r))
       => cs = <<>>
    /\ (Done(r) /\ op[r] = "Query" /\ ParseFails(inp[r].query)) => cs = <<>>
    /\ Succeeded(r) => Len(cs) = Len(Pipeline(op[r]))

\* C10: no handler calls a core operation twice or after a failed step, a
\* failed step is the handler's result, and every request that has started
\* ends with exactly one result.
C10_NoRetryAndTermination ==
    /\ [](\A r \in Reqs : NoRetry(r))
    /\ \A r \in Reqs : (pc[r] # "idle") ~> Done(r)

\* C10 witness: a Query ended on a failed core query without a count, while
\* another request ended on a failed second core call.
C10_Witness ==
    \E r1, r2 \in Reqs :
        /\ Done(r1) /\ op[r1] = "Query"
        /\ Len(calls[r1]) = 1 /\ calls[r1][1].err = "internal"
        /\ Done(r2) /\ Len(calls[r2]) = 2 /\ calls[r2][2].err = "internal"

====
